---------------------------- MODULE Spec2Model ----------------------------
(***************************************************************************)
(* Model of uitk/events.cpp: the two event filters EventFactoryFilter and  *)
(* MouseTracking.  The host toolkit (widget tree, hit testing, mouse grab, *)
(* event delivery, meta-object slot lookup) is modelled only as far as the *)
(* filters call into it.  Every call a handler makes into the toolkit is   *)
(* appended, in program order, to the variable log.                        *)
(***************************************************************************)
EXTENDS Integers, Sequences, FiniteSets, TLC

NULL == "nullptr"

(***************************************************************************)
(* The widgets of the application and their (static) classes.              *)
(***************************************************************************)
Widgets ==
  {"win", "parent", "btn", "chk", "combo", "slider", "area", "sbar"}

\* the tracked parent handed to the MouseTracking constructor
parent == "parent"

\* the class of each widget (metaObject()->className())
ClassOf ==
  [w \in Widgets |->
     CASE w = "win"    -> "QWidget"
       [] w = "parent" -> "QStackedWidget"
       [] w = "btn"    -> "QPushButton"
       [] w = "chk"    -> "QCheckBox"
       [] w = "combo"  -> "QComboBox"
       [] w = "slider" -> "QSlider"
       [] w = "area"   -> "QAbstractScrollArea"
       [] w = "sbar"   -> "QScrollBar"]

\* direct base class of each toolkit class
SuperClass ==
  [c \in {"QObject", "QWidget", "QFrame", "QStackedWidget", "QAbstractButton",
          "QPushButton", "QCheckBox", "QComboBox", "QAbstractSlider", "QSlider",
          "QScrollBar", "QAbstractScrollArea", "QTimer"} |->
     CASE c = "QObject"             -> NULL
       [] c = "QWidget"             -> "QObject"
       [] c = "QFrame"              -> "QWidget"
       [] c = "QStackedWidget"      -> "QFrame"
       [] c = "QAbstractButton"     -> "QWidget"
       [] c = "QPushButton"         -> "QAbstractButton"
       [] c = "QCheckBox"           -> "QAbstractButton"
       [] c = "QComboBox"           -> "QWidget"
       [] c = "QAbstractSlider"     -> "QWidget"
       [] c = "QSlider"             -> "QAbstractSlider"
       [] c = "QScrollBar"          -> "QAbstractSlider"
       [] c = "QAbstractScrollArea" -> "QFrame"
       [] c = "QTimer"              -> "QObject"]

RECURSIVE ClassInherits(_, _)
ClassInherits(c, base) ==
  IF c = NULL THEN FALSE
  ELSE IF c = base THEN TRUE
  ELSE ClassInherits(SuperClass[c], base)

\* widget->inherits(className), also what qobject_cast<T*>(widget) tests
inherits(w, className) == ClassInherits(ClassOf[w], className)

\* widgets the application may move in and out of the parent's subtree
Movable == {"area"}

\* where a movable widget may be put (QWidget::setParent)
Homes == {"parent", "win"}

\* the order in which findChildren lists the widgets it finds
WidgetOrder ==
  <<"win", "parent", "btn", "chk", "combo", "slider", "area", "sbar">>

\* windows QApplication::activeWindow() may return; nullptr when no window
\* of the application is active
ActiveWindows == {"win", NULL}

\* Qt::MouseButton values carried by a mouse event
MouseButtons == {"LeftButton", "RightButton"}

Range(s) == {s[i] : i \in DOMAIN s}

\* what QApplication::widgetAt(QCursor::pos()) may return, with the
\* pressed/open state of that widget (isDown(), view()->isVisible(),
\* isSliderDown()); a widget without such a state is never down
UnderCursor ==
  {c \in [topWidget : Widgets \cup {NULL}, down : BOOLEAN] :
     c.down => /\ c.topWidget # NULL
               /\ \/ inherits(c.topWidget, "QAbstractButton")
                  \/ inherits(c.topWidget, "QComboBox")
                  \/ inherits(c.topWidget, "QAbstractSlider")}

VARIABLES
  _prevMouseOver,   \* MouseTracking::_prevMouseOver (QList<QWidget*>)
  _mouseOver,       \* MouseTracking::_mouseOver (QList<QWidget*>)
  _filteredWidgets, \* MouseTracking::_filteredWidgets (QSet<QWidget*>)
  _widgets,         \* MouseTracking::_widgets (QList<QWidget*>)
  parentOf,         \* toolkit: QObject::parent() of every widget
  mouseGrabber,     \* toolkit: QWidget::mouseGrabber()
  mouseMoveEvent,   \* per widget: the chain of calls its mouseMoveEvent makes
  log,              \* toolkit calls made by the handler that ran last
  ev,               \* the event handled last, what it saw, what it returned
  crashed,          \* the process died in a handler
  lastGrab,         \* history: target of the grabMouse call of the last MouseMove
  hovered,          \* history: widgets whose last synthetic Enter/Leave is Enter
  prevWidgets,      \* history: _widgets at the move that recorded _prevMouseOver
  ctorForwardEventsTo, \* the forwardEventsTo argument of the constructor
  forwardEventsTo,  \* EventFactoryFilter::forwardEventsTo
  eventNamePrefix,  \* EventFactoryFilter::eventNamePrefix
  slots,            \* toolkit: the slots of the forward target's meta-object
  efEv,             \* EventFactoryFilter: the call handled last and its result
  efLog             \* EventFactoryFilter: invokeMethod calls of the last call

mtVars == <<_prevMouseOver, _mouseOver, _filteredWidgets, _widgets, parentOf,
            mouseGrabber, mouseMoveEvent, log, ev, crashed, lastGrab,
            hovered, prevWidgets>>
efVars == <<ctorForwardEventsTo, forwardEventsTo, eventNamePrefix, slots, efEv, efLog>>
vars == <<mtVars, efVars>>


(***************************************************************************)
(* QEvent::Type values used by the filters.                                *)
(***************************************************************************)
\* QEvent::None: no event handled yet
NoEvent == 0
MouseButtonPress == 2
MouseButtonRelease == 3
MouseMove == 5
KeyPress == 6
Enter == 10
Leave == 11

\* event types MouseTracking::eventFilter has no branch for
OtherEventTypes == {MouseButtonPress, KeyPress, Enter, Leave}

\* one call into the toolkit: the primitive, its receiver, its argument
Call(op, w, arg) == [op |-> op, w |-> w, arg |-> arg]

\* the record of one handled event
Event(type, topWidget, down, aw, button, returned, ret) ==
  [type |-> type, topWidget |-> topWidget, down |-> down, activeWindow |-> aw,
   button |-> button, returned |-> returned, ret |-> ret]

(***************************************************************************)
(* MouseTracking                                                           *)
(***************************************************************************)

\* mutant: eventFilter ends with `return true`
eventConsumed == TRUE

\* QObject::eventFilter(obj, event), the base implementation: never filters
QObject_eventFilter == FALSE

RECURSIVE isAncestorOf(_, _)
isAncestorOf(p, w) ==
  IF parentOf[w] = NULL THEN FALSE
  ELSE IF parentOf[w] = p THEN TRUE
  ELSE isAncestorOf(p, parentOf[w])

\* parentWidget->findChildren<QWidget*>(): all descendants, never p itself
findChildren(p) == SelectSeq(WidgetOrder, LAMBDA w : isAncestorOf(p, w))

\* getChildWidgets(): the new value of _widgets
getChildWidgets == findChildren(parent)

\* mutant: no `_widgets.contains(topWidget)` test
updateWidgetsUnderCursorAny(widgets, topWidget) ==
  IF topWidget # NULL THEN <<topWidget>> ELSE <<>>

\* updateWidgetsUnderCursor(): the new value of _mouseOver
updateWidgetsUnderCursor(widgets, topWidget) ==
  IF topWidget # NULL /\ topWidget \in Range(widgets)
    THEN <<topWidget>>
    ELSE <<>>

\* the widget types shouldCaptureMouse has a condition for; with `down` the
\* pressed/open state of the widget (isDown(), view()->isVisible(),
\* isSliderDown()), each condition is "not down"
widgetConditions == <<"QPushButton", "QComboBox", "QSlider", "QScrollBar">>

shouldCaptureMouse(widget, down) ==
  ~ \E i \in DOMAIN widgetConditions :
       inherits(widget, widgetConditions[i]) /\ ~down

\* releaseMouseForWidgets(widgets): the calls it makes
releaseMouseForWidgets(widgets) ==
  [i \in 1..Len(widgets) |-> Call("releaseMouse", widgets[i], NULL)]

\* toolkit: the mouse grabber after releaseMouse() on each of widgets
\* (releaseMouse only acts on the widget that holds the grab)
grabberAfterRelease(grabber, widgets) ==
  IF grabber \in Range(widgets) THEN NULL ELSE grabber

sendLeaveEvent(widget) == Call("sendEvent", widget, Leave)

sendEnterEvent(widget) == Call("sendEvent", widget, Enter)

\* mutant: the synthetic release always carries the left button
sendReleaseEventLeftButton(widget, button) ==
  Call("postEvent", widget,
       [type |-> MouseButtonRelease, button |-> "LeftButton"])

sendReleaseEvent(widget, button) ==
  Call("postEvent", widget, [type |-> MouseButtonRelease, button |-> button])

\* mutant: the `!` of `!_mouseOver.contains(widget)` is lost
LeaveLoopKept(prev, cur) ==
  LET kept == SelectSeq(prev, LAMBDA w : w \in Range(cur))
  IN  [i \in 1..Len(kept) |-> Call("sendEvent", kept[i], Leave)]

\* first loop of track(): Leave to what was under the cursor and is not now
LeaveLoop(prev, cur) ==
  LET gone == SelectSeq(prev, LAMBDA w : w \notin Range(cur))
  IN  [i \in 1..Len(gone) |-> sendLeaveEvent(gone[i])]

\* second loop of track(): Enter to what is under the cursor and was not
EnterLoop(prev, cur) ==
  LET come == SelectSeq(cur, LAMBDA w : w \notin Range(prev))
  IN  [i \in 1..Len(come) |-> sendEnterEvent(come[i])]

\* handleMouseGrab(): the widget grabMouse() is called on (nullptr when it
\* falls to the active window and there is none)
widgetToGrab(topWidget, down, aw) ==
  IF topWidget # NULL
    THEN IF shouldCaptureMouse(topWidget, down) THEN topWidget ELSE aw
    ELSE aw

\* mutant: no `!_filteredWidgets.contains(widget)` test
viewportsToFilterAgain(widgets, filtered) ==
  SelectSeq(widgets, LAMBDA w : inherits(w, "QAbstractScrollArea"))

\* filterViewportWidgets(): the widgets it wraps, in _widgets order
viewportsToFilter(widgets, filtered) ==
  SelectSeq(widgets,
            LAMBDA w : inherits(w, "QAbstractScrollArea") /\ w \notin filtered)

\* handleViewportWidget(): the replacement handler calls the original one,
\* then event->ignore()
handleViewportWidget(originalMouseMoveEvent) ==
  Append(originalMouseMoveEvent, "ignore")

\* mutant: _prevMouseOver is never refreshed
keepPrevMouseOver(prev, cur) == prev

\* track(): `_prevMouseOver = _mouseOver`
assignPrevMouseOver(prev, cur) == cur

\* history: the widgets left with an unmatched Enter after the calls
RECURSIVE Delivered(_, _)
Delivered(inside, calls) ==
  IF calls = <<>> THEN inside
  ELSE Delivered(IF Head(calls).arg = Enter
                   THEN inside \cup {Head(calls).w}
                   ELSE inside \ {Head(calls).w},
                 Tail(calls))

\* mutant: the Enter loop runs before the Leave loop
trackCallsEnterFirst(released, leaves, enters, target) ==
  released \o <<Call("updateWidgetsUnderCursor", NULL, NULL)>> \o enters
    \o leaves \o <<Call("grabMouse", target, NULL)>>

\* track(): the order of its calls up to and including grabMouse()
trackCalls(released, leaves, enters, target) ==
  released \o <<Call("updateWidgetsUnderCursor", NULL, NULL)>> \o leaves \o enters
    \o <<Call("grabMouse", target, NULL)>>

(***************************************************************************)
(* track(), run by eventFilter on a MouseMove.  topWidget is what          *)
(* QApplication::widgetAt(QCursor::pos()) returns, down the pressed/open   *)
(* state of that widget, aw what QApplication::activeWindow() returns.     *)
(* outcome: "ok" when grabMouse() has a receiver; calling it on nullptr is *)
(* undefined behaviour and either kills the process ("crash") or has no    *)
(* effect ("skip").                                                        *)
(***************************************************************************)
track(topWidget, down, aw, outcome) ==
  LET released == releaseMouseForWidgets(_mouseOver)
      grabber1 == grabberAfterRelease(mouseGrabber, _mouseOver)
      widgets  == getChildWidgets
      cur      == updateWidgetsUnderCursor(widgets, topWidget)
      leaves   == LeaveLoop(_prevMouseOver, cur)
      enters   == EnterLoop(_prevMouseOver, cur)
      target   == widgetToGrab(topWidget, down, aw)
      calls    == trackCalls(released, leaves, enters, target)
      toFilter == viewportsToFilter(widgets, _filteredWidgets)
  IN  /\ _widgets' = widgets
      /\ _mouseOver' = cur
      /\ hovered' = Delivered(hovered, leaves \o enters)
      /\ parentOf' = parentOf
      /\ IF outcome = "crash"
           THEN /\ crashed' = TRUE
                /\ log' = calls
                /\ mouseGrabber' = grabber1
                /\ ev' = Event(MouseMove, topWidget, down, aw, NULL, FALSE, FALSE)
                /\ UNCHANGED <<_prevMouseOver, prevWidgets, _filteredWidgets,
                               mouseMoveEvent, lastGrab>>
           ELSE /\ crashed' = FALSE
                /\ mouseGrabber' = IF outcome = "ok" THEN target ELSE grabber1
                /\ lastGrab' = IF outcome = "ok" THEN target ELSE NULL
                /\ _prevMouseOver' = assignPrevMouseOver(_prevMouseOver, cur)
                /\ prevWidgets' = widgets
                /\ _filteredWidgets' = _filteredWidgets \cup Range(toFilter)
                /\ mouseMoveEvent' =
                     [w \in Widgets |->
                        IF w \in Range(toFilter)
                          THEN handleViewportWidget(mouseMoveEvent[w])
                          ELSE mouseMoveEvent[w]]
                /\ log' = calls \o <<Call("assignPrev", NULL, NULL)>>
                            \o [i \in 1..Len(toFilter) |->
                                  Call("wrapMouseMoveEvent", toFilter[i], NULL)]
                /\ ev' = Event(MouseMove, topWidget, down, aw, NULL, TRUE,
                               QObject_eventFilter)

\* eventFilter, event->type() == QEvent::MouseMove, grabMouse() has a receiver
eventFilterMouseMove ==
  /\ ~crashed
  /\ \E c \in UnderCursor, aw \in ActiveWindows :
       /\ widgetToGrab(c.topWidget, c.down, aw) # NULL
       /\ track(c.topWidget, c.down, aw, "ok")
  /\ UNCHANGED efVars

\* eventFilter, event->type() == QEvent::MouseMove, grabMouse() on nullptr
eventFilterMouseMoveNullGrab ==
  /\ ~crashed
  /\ \E c \in UnderCursor, aw \in ActiveWindows :
       /\ widgetToGrab(c.topWidget, c.down, aw) = NULL
       /\ \/ track(c.topWidget, c.down, aw, "crash")
          \/ track(c.topWidget, c.down, aw, "skip")
  /\ UNCHANGED efVars

\* eventFilter, event->type() == QEvent::MouseButtonRelease
eventFilterMouseButtonRelease ==
  /\ ~crashed
  /\ \E c \in UnderCursor, button \in MouseButtons :
       /\ log' = IF /\ c.topWidget # NULL
                    /\ inherits(c.topWidget, "QAbstractButton")
                    /\ ~c.down
                   THEN <<sendReleaseEvent(c.topWidget, button)>>
                   ELSE <<>>
       /\ ev' = Event(MouseButtonRelease, c.topWidget, c.down, NULL, button,
                      TRUE, QObject_eventFilter)
  /\ UNCHANGED <<_prevMouseOver, _mouseOver, _filteredWidgets, _widgets, parentOf,
                 mouseGrabber, mouseMoveEvent, crashed, lastGrab, hovered,
                 prevWidgets>>
  /\ UNCHANGED efVars

\* eventFilter, any other event type: straight to QObject::eventFilter
eventFilterOther ==
  /\ ~crashed
  /\ \E type \in OtherEventTypes :
       ev' = Event(type, NULL, FALSE, NULL, NULL, TRUE, QObject_eventFilter)
  /\ log' = <<>>
  /\ UNCHANGED <<_prevMouseOver, _mouseOver, _filteredWidgets, _widgets, parentOf,
                 mouseGrabber, mouseMoveEvent, crashed, lastGrab, hovered,
                 prevWidgets>>
  /\ UNCHANGED efVars

\* the application reparents a widget (QWidget::setParent) between events
setParent ==
  /\ ~crashed
  /\ \E w \in Movable, p \in Homes :
       /\ parentOf[w] # p
       /\ parentOf' = [parentOf EXCEPT ![w] = p]
  /\ log' = <<>>
  /\ ev' = Event(NoEvent, NULL, FALSE, NULL, NULL, FALSE, FALSE)
  /\ UNCHANGED <<_prevMouseOver, _mouseOver, _filteredWidgets, _widgets,
                 mouseGrabber, mouseMoveEvent, crashed, lastGrab, hovered,
                 prevWidgets>>
  /\ UNCHANGED efVars

\* the widget tree the application builds before any event
InitialParentOf ==
  [w \in Widgets |->
     CASE w = "win"    -> NULL
       [] w = "parent" -> "win"
       [] w = "sbar"   -> "area"
       [] OTHER        -> "parent"]

\* MouseTracking(parent): the state the constructor leaves
InitMT ==
  /\ _prevMouseOver = <<>>
  /\ _mouseOver = <<>>
  /\ _filteredWidgets = {}
  /\ _widgets = <<>>
  /\ parentOf = InitialParentOf
  /\ mouseGrabber = NULL
  /\ mouseMoveEvent = [w \in Widgets |-> <<"original">>]
  /\ log = <<>>
  /\ ev = Event(NoEvent, NULL, FALSE, NULL, NULL, FALSE, FALSE)
  /\ crashed = FALSE
  /\ lastGrab = NULL
  /\ hovered = {}
  /\ prevWidgets = <<>>

\* EventFactoryFilter is not exercised by the MouseTracking specification
IdleEF ==
  /\ ctorForwardEventsTo = NULL
  /\ forwardEventsTo = "this"
  /\ eventNamePrefix = <<>>
  /\ slots = <<>>
  /\ efEv = [obj |-> NULL, type |-> NoEvent, ret |-> FALSE]
  /\ efLog = <<>>

Init == InitMT /\ IdleEF

Next ==
  \/ eventFilterMouseMove
  \/ eventFilterMouseMoveNullGrab
  \/ eventFilterMouseButtonRelease
  \/ eventFilterOther
  \/ setParent

Spec == Init /\ [][Next]_vars

(***************************************************************************)
(* EventFactoryFilter                                                      *)
(***************************************************************************)

\* largest QEvent::Type value the filter is fed
MaxEventType == 12

\* objects the filter may be installed on: widgets and a plain QObject
WatchedObjects == {"btn", "area", "timer"}

\* the class of a watched object
ObjectClass(obj) == IF obj \in Widgets THEN ClassOf[obj] ELSE "QTimer"

\* qobject_cast<QWidget*>(obj): nullptr unless obj is a QWidget
qobject_cast_QWidget(obj) ==
  IF ClassInherits(ObjectClass(obj), "QWidget") THEN obj ELSE NULL

\* strings are sequences of characters
Digits == <<"0", "1", "2", "3", "4", "5", "6", "7", "8", "9">>
UpperCase ==
  <<"A", "B", "C", "D", "E", "F", "G", "H", "I", "J", "K", "L", "M",
    "N", "O", "P", "Q", "R", "S", "T", "U", "V", "W", "X", "Y", "Z">>
LowerCase ==
  <<"a", "b", "c", "d", "e", "f", "g", "h", "i", "j", "k", "l", "m",
    "n", "o", "p", "q", "r", "s", "t", "u", "v", "w", "x", "y", "z">>
str_event == <<"e", "v", "e", "n", "t">>
str_Event == <<"E", "v", "e", "n", "t">>
str_Button == <<"B", "u", "t", "t", "o", "n">>
str_on == <<"o", "n", "_">>
str_mouseMoveEvent ==
  <<"m", "o", "u", "s", "e", "M", "o", "v", "e", "E", "v", "e", "n", "t">>

\* QString::number(n) for n >= 0
RECURSIVE QString_number(_)
QString_number(n) ==
  IF n < 10 THEN <<Digits[n + 1]>>
  ELSE Append(QString_number(n \div 10), Digits[(n % 10) + 1])

\* QString::toLower() of one character
toLower(c) ==
  IF \E i \in DOMAIN UpperCase : UpperCase[i] = c
    THEN LowerCase[CHOOSE i \in DOMAIN UpperCase : UpperCase[i] = c]
    ELSE c

\* s without its first n characters
Drop(s, n) == SubSeq(s, n + 1, Len(s))

\* s starts with the characters of p
StartsWith(s, p) == Len(s) >= Len(p) /\ SubSeq(s, 1, Len(p)) = p

\* std::regex_match(s, "^.*\.([A-Z])([^B]*)(?:Button)?(.*)$"): the places
\* where "." is followed by a capital; the greedy ".*" stops at the last one
regexDots(s) ==
  {i \in 1..(Len(s) - 1) :
     s[i] = "." /\ \E k \in DOMAIN UpperCase : UpperCase[k] = s[i + 1]}

\* the three capture groups of a match
regexGroups(s) ==
  LET i     == CHOOSE d \in regexDots(s) : \A e \in regexDots(s) : e <= d
      rest  == Drop(s, i + 1)
      bs    == {k \in DOMAIN rest : rest[k] = "B"}
      n2    == IF bs = {} THEN Len(rest)
               ELSE (CHOOSE k \in bs : \A l \in bs : k <= l) - 1
      tail  == Drop(rest, n2)
      tail3 == IF StartsWith(tail, str_Button) THEN Drop(tail, Len(str_Button)) ELSE tail
  IN  <<<<s[i + 1]>>, SubSeq(rest, 1, n2), tail3>>

\* formatEventName(eventType, prefix)
formatEventName(eventType, prefix) ==
  LET eventTypeStr == QString_number(eventType)
  IN  IF regexDots(eventTypeStr) # {}
        THEN LET matches == regexGroups(eventTypeStr)
             IN  prefix \o <<toLower(matches[1][1])>> \o matches[2]
                   \o matches[3] \o str_Event
        ELSE prefix \o str_event

\* a slot of a meta-object: its name and its normalized argument types
Slot(name, args) == [name |-> name, args |-> args]

\* the slots an object handed in as forward target may declare
CandidateSlots ==
  <<Slot(str_event, <<"QWidget*", "QEvent*">>),
    Slot(str_on \o str_event, <<"QWidget*", "QEvent*">>),
    Slot(str_event, <<"QEvent*">>),
    Slot(str_mouseMoveEvent, <<"QWidget*", "QEvent*">>)>>

\* the slot tables a forward target may have: any choice of the candidates
SlotTables ==
  {SelectSeq(CandidateSlots, LAMBDA c : c \in S) : S \in SUBSET Range(CandidateSlots)}

\* metaObject()->indexOfSlot(signature): the index of the slot, -1 if none
indexOfSlot(table, signature) ==
  IF \E i \in DOMAIN table : table[i] = signature
    THEN (CHOOSE i \in DOMAIN table :
            /\ table[i] = signature
            /\ \A j \in DOMAIN table : table[j] = signature => i <= j) - 1
    ELSE -1

\* mutant: the test is `indexOfSlot(...) > 0`
slotFoundPositive(index) == index > 0

\* eventFilter: the test `indexOfSlot(...) >= 0`
slotFound(index) == index >= 0

\* EventFactoryFilter::eventFilter(obj, event)
EventFactoryFilter_eventFilter ==
  /\ \E obj \in WatchedObjects, type \in 0..MaxEventType :
       LET methodName == formatEventName(type, eventNamePrefix)
           index == indexOfSlot(slots,
                                Slot(methodName, <<"QWidget*", "QEvent*">>))
       IN  IF slotFound(index)
             THEN /\ efLog' = <<[target |-> forwardEventsTo,
                                 method |-> methodName,
                                 connection |-> "DirectConnection",
                                 args |-> <<qobject_cast_QWidget(obj), type>>]>>
                  /\ efEv' = [obj |-> obj, type |-> type, ret |-> TRUE]
             ELSE /\ efLog' = <<>>
                  /\ efEv' = [obj |-> obj, type |-> type, ret |-> FALSE]
  /\ UNCHANGED <<ctorForwardEventsTo, forwardEventsTo, eventNamePrefix, slots>>
  /\ UNCHANGED mtVars

\* EventFactoryFilter(parent, forwardEventsTo, eventNamePrefix)
InitEF ==
  /\ ctorForwardEventsTo \in {NULL, "handler"}
  /\ forwardEventsTo =
       IF ctorForwardEventsTo # NULL THEN ctorForwardEventsTo ELSE "this"
  /\ eventNamePrefix \in {<<>>, str_on}
  /\ slots \in SlotTables
  /\ efEv = [obj |-> NULL, type |-> NoEvent, ret |-> FALSE]
  /\ efLog = <<>>

InitFactory == InitEF /\ InitMT

NextEF == EventFactoryFilter_eventFilter

SpecEF == InitFactory /\ [][NextEF]_vars

(***************************************************************************)
(* Properties of MouseTracking.                                            *)
(***************************************************************************)

\* the receivers of the synthetic events of one type a handler sent, in order
SentTo(calls, type) ==
  LET sent == SelectSeq(calls, LAMBDA c : c.op = "sendEvent" /\ c.arg = type)
  IN  [i \in 1..Len(sent) |-> sent[i].w]

\* the calls of one primitive a handler made, in order
CallsOf(calls, op) == SelectSeq(calls, LAMBDA c : c.op = op)

\* a sequence holds each member of S once and nothing else
HoldsOnce(seq, S) == Range(seq) = S /\ Len(seq) = Cardinality(S)

\* the last event was a MouseMove whose handler ran to its end
MoveProcessed == ev.type = MouseMove /\ ev.returned

\* C1: handling a MouseMove sends Leave to exactly the widgets recorded by the
\* previous mouse move that are not under the cursor now, and Enter to exactly
\* the widgets under the cursor now that were not recorded; a widget in both
\* lists or in neither gets no event.
C1_EnterLeaveExact ==
  [][ev'.type = MouseMove =>
       /\ HoldsOnce(SentTo(log', Leave),
                    Range(_prevMouseOver) \ Range(_mouseOver'))
       /\ HoldsOnce(SentTo(log', Enter),
                    Range(_mouseOver') \ Range(_prevMouseOver))]_vars

\* a mouse move from one tracked widget to another: one Leave, one Enter
C1_Witness ==
  /\ ev.type = MouseMove
  /\ Len(SentTo(log, Leave)) = 1
  /\ Len(SentTo(log, Enter)) = 1
  /\ SentTo(log, Leave) # SentTo(log, Enter)

\* the widget C2 says takes the grab
C2_Target ==
  LET w == ev.topWidget
      notCaptured ==
        \/ inherits(w, "QPushButton") /\ ~ev.down
        \/ inherits(w, "QComboBox") /\ ~ev.down
        \/ (inherits(w, "QSlider") \/ inherits(w, "QScrollBar")) /\ ~ev.down
  IN  IF w # NULL /\ ~notCaptured THEN w ELSE ev.activeWindow

\* C2: after every processed MouseMove exactly one grabMouse call was made,
\* on the widget under the cursor when shouldCaptureMouse holds for it and on
\* the active window otherwise (also when no widget is under the cursor).
C2_OneGrabOnTarget ==
  ev.type = MouseMove =>
    /\ Len(CallsOf(log, "grabMouse")) = 1
    /\ CallsOf(log, "grabMouse")[1].w = C2_Target
    /\ CallsOf(log, "grabMouse")[1].w \in Widgets

\* C3: on a MouseButtonRelease exactly one synthetic MouseButtonRelease with
\* the original button is posted to the widget under the cursor iff it is a
\* QAbstractButton that is not down, nothing is posted otherwise, and
\* _prevMouseOver, _mouseOver, _filteredWidgets and the grab do not change.
C3_ReleaseForwarded ==
  [][ev'.type = MouseButtonRelease =>
       /\ log' =
            IF /\ ev'.topWidget # NULL
               /\ ClassInherits(ClassOf[ev'.topWidget], "QAbstractButton")
               /\ ~ev'.down
              THEN <<[op |-> "postEvent", w |-> ev'.topWidget,
                      arg |-> [type |-> MouseButtonRelease,
                               button |-> ev'.button]]>>
              ELSE <<>>
       /\ UNCHANGED <<_prevMouseOver, _mouseOver, _filteredWidgets,
                      mouseGrabber>>]_vars

\* a release over a button that is not down, with the grab held by a widget
C3_Witness ==
  /\ ev.type = MouseButtonRelease
  /\ Len(log) = 1
  /\ log[1].op = "postEvent"
  /\ log[1].arg.button = "RightButton"
  /\ mouseGrabber # NULL
  /\ _mouseOver # <<>>

\* C4: MouseTracking::eventFilter never consumes an event: whatever the event
\* type, when it returns it returns false.
C4_NeverConsumes ==
  ev.returned => ev.ret = FALSE

\* a MouseMove that sent events and took the grab, and was passed on
C4_Witness ==
  /\ ev.type = MouseMove
  /\ ev.returned
  /\ ev.ret = FALSE
  /\ SentTo(log, Enter) # <<>>
  /\ mouseGrabber # NULL

\* the position in track() of each kind of call
Phase(c) ==
  CASE c.op = "releaseMouse"                -> 1
    [] c.op = "updateWidgetsUnderCursor"    -> 2
    [] c.op = "sendEvent" /\ c.arg = Leave  -> 3
    [] c.op = "sendEvent" /\ c.arg = Enter  -> 4
    [] c.op = "grabMouse"                   -> 5
    [] c.op = "assignPrev"                  -> 6
    [] c.op = "wrapMouseMoveEvent"          -> 7

\* C6: one MouseMove does, in this order: releaseMouse on the widgets recorded
\* by the previous mouse move, the recomputation of the widgets under the
\* cursor, all Leave events, all Enter events, the grabMouse call, the
\* assignment _prevMouseOver := _mouseOver, the viewport filtering.
C6_TrackOrder ==
  [][ev'.type = MouseMove =>
       /\ \A i, j \in DOMAIN log' : i < j => Phase(log'[i]) <= Phase(log'[j])
       /\ [i \in 1..Len(CallsOf(log', "releaseMouse")) |->
             CallsOf(log', "releaseMouse")[i].w] = _mouseOver
       /\ Len(CallsOf(log', "updateWidgetsUnderCursor")) = 1
       /\ Len(CallsOf(log', "grabMouse")) = 1
       /\ ev'.returned =>
            /\ Len(CallsOf(log', "assignPrev")) = 1
            /\ _prevMouseOver' = _mouseOver'
            /\ HoldsOnce([i \in 1..Len(CallsOf(log', "wrapMouseMoveEvent")) |->
                            CallsOf(log', "wrapMouseMoveEvent")[i].w],
                         _filteredWidgets' \ _filteredWidgets)]_vars

\* a MouseMove that made a call in every one of the seven positions
C6_Witness ==
  /\ ev.type = MouseMove
  /\ {Phase(log[i]) : i \in DOMAIN log} = 1..7

\* C7: whenever a widget takes the grab in handleMouseGrab, the widget that
\* took the grab on the previous mouse move, if another one, was sent
\* releaseMouse earlier in the same track.
C7_GrabHandoff ==
  [][(/\ ev'.type = MouseMove
      /\ lastGrab' # NULL
      /\ lastGrab # NULL
      /\ lastGrab # lastGrab') =>
        \E i, j \in DOMAIN log' :
          /\ i < j
          /\ log'[i].op = "releaseMouse" /\ log'[i].w = lastGrab
          /\ log'[j].op = "grabMouse"]_vars

\* the widgets with an unmatched Enter stay consistent over the calls: Enter
\* only to a widget outside, Leave only to a widget inside
RECURSIVE Alternates(_, _)
Alternates(inside, calls) ==
  IF calls = <<>> THEN TRUE
  ELSE LET c == Head(calls)
       IN  IF c.arg = Enter
             THEN c.w \notin inside /\ Alternates(inside \cup {c.w}, Tail(calls))
             ELSE c.w \in inside /\ Alternates(inside \ {c.w}, Tail(calls))

\* C8: the synthetic Enter and Leave events of each widget alternate and start
\* with Enter: no two Enter without a Leave between, no Leave without an
\* unmatched Enter before it.
C8_EnterLeaveAlternate ==
  [][Alternates(hovered, CallsOf(log', "sendEvent"))]_vars

\* one widget gets the Leave that matches its Enter while another is entered
C8_Witness ==
  /\ ev.type = MouseMove
  /\ SentTo(log, Enter) = <<"btn">>
  /\ SentTo(log, Leave) = <<"chk">>
  /\ hovered = {"btn"}

\* the proper descendants of a widget in the widget tree
RECURSIVE Below(_)
Below(S) ==
  LET T == S \cup {w \in Widgets : parentOf[w] \in S}
  IN  IF T = S THEN S ELSE Below(T)

ProperDescendants(p) == Below({p}) \ {p}

\* C9: _mouseOver and _prevMouseOver hold at most one widget each, a
\* descendant of the parent at the mouse move that recorded it; the parent
\* and widgets outside its subtree are never recorded and count as nothing
\* under the cursor.
C9_OnlyDescendantsRecorded ==
  /\ Len(_mouseOver) <= 1
  /\ Len(_prevMouseOver) <= 1
  /\ Range(_mouseOver) \subseteq Range(_widgets)
  /\ Range(_prevMouseOver) \subseteq Range(prevWidgets)
  /\ parent \notin Range(_widgets) \cup Range(prevWidgets)
  /\ ev.type = MouseMove =>
       /\ Range(_widgets) = ProperDescendants(parent)
       /\ ev.returned => prevWidgets = _widgets
       /\ ev.topWidget \notin ProperDescendants(parent) =>
            _mouseOver = <<>> /\ SentTo(log, Enter) = <<>>
       /\ ev.topWidget \in ProperDescendants(parent) =>
            _mouseOver = <<ev.topWidget>>

\* the cursor went from a tracked widget to a widget moved out of the subtree
C9_Witness ==
  /\ ev.type = MouseMove
  /\ ev.topWidget = "sbar"
  /\ "sbar" \notin ProperDescendants(parent)
  /\ SentTo(log, Leave) # <<>>
  /\ _mouseOver = <<>>

\* C10: after every processed MouseMove a grab held by a widget other than the
\* active window is held by the widget recorded in _mouseOver, and the grab is
\* never held by a widget that is neither the active window nor a tracked
\* descendant of the parent.
C10_GrabAgreesWithHover ==
  MoveProcessed =>
    /\ (mouseGrabber # NULL /\ mouseGrabber # ev.activeWindow) =>
         _mouseOver = <<mouseGrabber>>
    /\ mouseGrabber # NULL =>
         mouseGrabber = ev.activeWindow \/ mouseGrabber \in Range(_widgets)

\* C11: handleMouseGrab never calls grabMouse on a null widget: whatever is
\* under the cursor and whether or not there is an active window, a MouseMove
\* is processed to its end with the grab on an existing widget.
C11_GrabNeverOnNull ==
  /\ ~crashed
  /\ \A i \in DOMAIN log : log[i].op = "grabMouse" => log[i].w \in Widgets
  /\ ev.type = MouseMove => ev.returned /\ mouseGrabber \in Widgets

\* the receivers of the handler wrappings of one handler, in order
Wrapped(calls) ==
  [i \in 1..Len(CallsOf(calls, "wrapMouseMoveEvent")) |->
     CallsOf(calls, "wrapMouseMoveEvent")[i].w]

\* the QAbstractScrollArea descendants of the parent
ScrollAreaDescendants ==
  {w \in ProperDescendants(parent) :
     ClassInherits(ClassOf[w], "QAbstractScrollArea")}

\* one step keeps the wrapping in order: _filteredWidgets only grows; what it
\* gains is wrapped in this step, once, and is a scroll-area descendant not
\* wrapped before; a handler is the original one, followed by event->ignore()
\* exactly when its widget is in _filteredWidgets; a mouse move that runs to
\* its end leaves every scroll-area descendant in _filteredWidgets
C12_WrapStep ==
  /\ _filteredWidgets \subseteq _filteredWidgets'
  /\ HoldsOnce(Wrapped(log'), _filteredWidgets' \ _filteredWidgets)
  /\ \A w \in _filteredWidgets' \ _filteredWidgets :
       /\ ev'.type = MouseMove
       /\ w \in ScrollAreaDescendants
       /\ mouseMoveEvent[w] = <<"original">>
  /\ \A w \in Widgets :
       mouseMoveEvent'[w] =
         IF w \in _filteredWidgets' THEN <<"original", "ignore">>
                                    ELSE <<"original">>
  /\ (ev'.type = MouseMove /\ ev'.returned) =>
       ScrollAreaDescendants \subseteq _filteredWidgets'

\* C12 as claimed: each QAbstractScrollArea descendant is wrapped exactly
\* once; _filteredWidgets only grows, holds only scroll-area descendants of
\* the parent that have been wrapped (looked at after each mouse move),
\* nothing in it is wrapped again, and the wrapped handler calls the original
\* handler and then ignores the event.
C12_FilteredAreDescendants ==
  [][/\ C12_WrapStep
     /\ ev'.type = MouseMove =>
          _filteredWidgets' \subseteq ScrollAreaDescendants']_vars

\* C12 amended: as claimed, but _filteredWidgets holds the scroll areas that
\* were descendants of the parent at the mouse move that wrapped them; one
\* that is reparented out of the subtree afterwards stays in the set.
C12_WrappedOnce == [][C12_WrapStep]_vars

\* a later mouse move finds the scroll area already wrapped and leaves it so
C12_Witness ==
  /\ MoveProcessed
  /\ "area" \in ScrollAreaDescendants
  /\ "area" \in _filteredWidgets
  /\ Wrapped(log) = <<>>
  /\ mouseMoveEvent["area"] = <<"original", "ignore">>

(***************************************************************************)
(* Properties of EventFactoryFilter.                                       *)
(***************************************************************************)

\* the forward target: the constructor's argument, the filter itself if none
C5_Target ==
  IF ctorForwardEventsTo # NULL THEN ctorForwardEventsTo ELSE "this"

\* the handler name of the event handled last
C5_Name == formatEventName(efEv.type, eventNamePrefix)

\* the forward target has a slot of that name taking (QWidget*, QEvent*)
C5_HasHandler ==
  \E i \in DOMAIN slots :
    slots[i].name = C5_Name /\ slots[i].args = <<"QWidget*", "QEvent*">>

\* C5 as claimed: the event is consumed iff the forward target has the handler
\* slot; then the slot is invoked once, directly, with the watched object and
\* the event; otherwise nothing is invoked and false is returned.
C5_ForwardsWatchedObject ==
  efEv.obj # NULL =>
    /\ efEv.ret = C5_HasHandler
    /\ efLog =
         IF C5_HasHandler
           THEN <<[target |-> C5_Target, method |-> C5_Name,
                   connection |-> "DirectConnection",
                   args |-> <<efEv.obj, efEv.type>>]>>
           ELSE <<>>

\* C5 amended: as claimed, but the slot receives the watched object cast to
\* QWidget*, which is nullptr when the watched object is not a QWidget.
C5_ForwardsCastObject ==
  efEv.obj # NULL =>
    /\ efEv.ret = C5_HasHandler
    /\ efLog =
         IF C5_HasHandler
           THEN <<[target |-> C5_Target, method |-> C5_Name,
                   connection |-> "DirectConnection",
                   args |-> <<IF efEv.obj \in Widgets THEN efEv.obj ELSE NULL,
                              efEv.type>>]>>
           ELSE <<>>

\* an event of a watched object that is no widget is consumed by the handler
\* of a target given to the constructor
C5_Witness ==
  /\ efEv.obj = "timer"
  /\ efEv.ret = TRUE
  /\ Len(efLog) = 1
  /\ efLog[1].target = "handler"
  /\ efLog[1].args[1] = NULL

=============================================================================
